---- MODULE Spec2Model ----
(***************************************************************************)
(* Particle simulation engine of src/src/App.jsx: algorithmStep, the       *)
(* Particles component (pool rebuild effect, per-frame callback) and the   *)
(* parameter object it reads.                                              *)
(*                                                                         *)
(* JavaScript numbers are modelled as decimal fixed-point values: an       *)
(* integer n stands for n / Unit.  A result whose magnitude exceeds        *)
(* MaxFloat overflows to +Infinity / -Infinity, and NaN is a value of its  *)
(* own, with the IEEE-754 rules for the three (Infinity * 0 = NaN,         *)
(* Infinity - Infinity = NaN, NaN absorbs).  Finite results are rounded to *)
(* the nearest representable value, ties to even.                          *)
(***************************************************************************)
EXTENDS Integers, Sequences, FiniteSets

\* ------------------------------------------------------------------ bounds
\* Largest finite magnitude of the number model (in 1/Unit).
MaxFloat == 2000000
\* Frame callbacks per behaviour.
MaxFrames == 2
\* Renders of Particles (parameter changes) per behaviour.
MaxRenders == 1

\* ----------------------------------------------------------------- numbers
\* Three decimal digits below the point.
Unit == 10 * 10 * 10

PInf == MaxFloat + 1
NInf == 0 - (MaxFloat + 1)
NaN == MaxFloat + 2

IsNaN(a) == a = NaN
IsInf(a) == a = PInf \/ a = NInf
IsFinite(a) == a >= 0 - MaxFloat /\ a <= MaxFloat

Abs(a) == IF a < 0 THEN 0 - a ELSE a
Sign(a) == IF a < 0 THEN 0 - 1 ELSE IF a > 0 THEN 1 ELSE 0

\* n / d for n >= 0, d > 0, rounded to nearest, ties to even.
RoundDiv(n, d) ==
    LET q == n \div d
        r == n % d
    IN IF 2 * r > d \/ (2 * r = d /\ q % 2 = 1) THEN q + 1 ELSE q

\* A signed magnitude back into the number model: overflow gives an infinity.
Fl(sgn, mag) ==
    IF mag > MaxFloat THEN (IF sgn < 0 THEN NInf ELSE PInf)
    ELSE IF sgn < 0 THEN 0 - mag ELSE mag

Neg(a) == IF IsNaN(a) THEN NaN ELSE 0 - a

Add(a, b) ==
    IF IsNaN(a) \/ IsNaN(b) THEN NaN
    ELSE IF IsInf(a) /\ IsInf(b) THEN (IF a = b THEN a ELSE NaN)
    ELSE IF IsInf(a) THEN a
    ELSE IF IsInf(b) THEN b
    ELSE Fl(Sign(a + b), Abs(a + b))

Sub(a, b) == Add(a, Neg(b))

\* |a| * |b| / Unit for finite a, b, computed without leaving 32 bits:
\* |a| = qa * Unit + ra, so the product is qa * |b| + (ra * |b|) / Unit.
MulMag(a, b) ==
    LET qa == Abs(a) \div Unit
        ra == Abs(a) % Unit
    IN IF qa > 0 /\ Abs(b) > (MaxFloat \div qa) + 1 THEN MaxFloat + 1
       ELSE qa * Abs(b) + RoundDiv(ra * Abs(b), Unit)

Mul(a, b) ==
    IF IsNaN(a) \/ IsNaN(b) THEN NaN
    ELSE IF IsInf(a) \/ IsInf(b)
         THEN (IF a = 0 \/ b = 0 THEN NaN
               ELSE IF Sign(a) * Sign(b) < 0 THEN NInf ELSE PInf)
    ELSE Fl(Sign(a) * Sign(b), MulMag(a, b))

Div(a, b) ==
    IF IsNaN(a) \/ IsNaN(b) THEN NaN
    ELSE IF IsInf(a) /\ IsInf(b) THEN NaN
    ELSE IF IsInf(a) THEN (IF Sign(a) * (IF b < 0 THEN 0 - 1 ELSE 1) < 0 THEN NInf ELSE PInf)
    ELSE IF IsInf(b) THEN 0
    ELSE IF b = 0 THEN (IF a = 0 THEN NaN ELSE IF a < 0 THEN NInf ELSE PInf)
    ELSE Fl(Sign(a) * Sign(b), RoundDiv(Abs(a) * Unit, Abs(b)))

\* Math.min of two numbers: NaN if either is NaN.
MathMin(a, b) ==
    IF IsNaN(a) \/ IsNaN(b) THEN NaN ELSE IF a < b THEN a ELSE b

\* Math.sin on a fixed-point angle in radians: range reduction modulo 2*pi and
\* Bhaskara's rational approximation 16w / (5 pi^2 - 4w), w = a (pi - a), on
\* [0, pi].  Non-finite arguments give NaN, as in IEEE arithmetic.
PiMilli == 3142

SinHalf(a) ==
    LET w == a * (PiMilli - a)
    IN RoundDiv(500 * w, (5 * PiMilli * PiMilli - 4 * w) \div 32)

MathSin(a) ==
    IF ~IsFinite(a) THEN NaN
    ELSE LET m == a % (2 * PiMilli)
         IN IF m <= PiMilli THEN SinHalf(m) ELSE 0 - SinHalf(m - PiMilli)

\* ------------------------------------------------------------ JS values
\* A parameter value as it arrives in the params object: a number, or a
\* string given as its sequence of characters.
Num(n) == [t |-> "number", n |-> n, s |-> <<>>]
Str(s) == [t |-> "string", n |-> 0, s |-> s]

DigitChars == <<"0", "1", "2", "3", "4", "5", "6", "7", "8", "9">>
IsDigit(c) == \E k \in 1..10 : DigitChars[k] = c
DigitVal(c) == (CHOOSE k \in 1..10 : DigitChars[k] = c) - 1
IsSpace(c) == c = " "

\* Number of leading white-space characters of s from index i on.
RECURSIVE SkipSpace(_, _)
SkipSpace(s, i) ==
    IF i <= Len(s) /\ IsSpace(s[i]) THEN SkipSpace(s, i + 1) ELSE i

\* Length of the run of digits of s that starts at index i.
RECURSIVE DigitRun(_, _)
DigitRun(s, i) ==
    IF i <= Len(s) /\ IsDigit(s[i]) THEN 1 + DigitRun(s, i + 1) ELSE 0

\* Value of the n digits of s from index i, saturating above MaxFloat.
RECURSIVE DigitsVal(_, _, _, _)
DigitsVal(s, i, n, acc) ==
    IF n = 0 THEN acc
    ELSE IF acc > MaxFloat THEN acc
    ELSE DigitsVal(s, i + 1, n - 1, 10 * acc + DigitVal(s[i]))

\* The fraction digits s[i .. i+n-1] as thousandths, rounded on the 4th digit.
FracVal(s, i, n) ==
    LET d(k) == IF k <= n THEN DigitVal(s[i + k - 1]) ELSE 0
        base == 100 * d(1) + 10 * d(2) + d(3)
    IN IF d(4) >= 5 THEN base + 1 ELSE base

\* parseFloat on a string: leading white space, an optional sign, digits, an
\* optional point and digits; the longest such prefix is the value and what
\* follows it is ignored.  No digit at all gives NaN.  (The exponent part and
\* the literal "Infinity" are left out: no input of the model holds them.)
ParseChars(s) ==
    LET i0 == SkipSpace(s, 1)
        signed == i0 <= Len(s) /\ (s[i0] = "-" \/ s[i0] = "+")
        sgn == IF signed /\ s[i0] = "-" THEN 0 - 1 ELSE 1
        i1 == IF signed THEN i0 + 1 ELSE i0
        nInt == DigitRun(s, i1)
        i2 == i1 + nInt
        dot == i2 <= Len(s) /\ s[i2] = "."
        nFrac == IF dot THEN DigitRun(s, i2 + 1) ELSE 0
        int == DigitsVal(s, i1, nInt, 0)
    IN IF nInt = 0 /\ nFrac = 0 THEN NaN
       ELSE IF int > MaxFloat \div Unit THEN Fl(sgn, MaxFloat + 1)
       ELSE Fl(sgn, int * Unit + FracVal(s, i2 + 1, nFrac))

\* parseFloat(v): a number is converted to its string and parsed back, which
\* returns the number (NaN and the infinities included).
parseFloat(v) == IF v.t = "number" THEN v.n ELSE ParseChars(v.s)

\* ------------------------------------------------------------ algorithmStep
\* Program constants (fixed point).
DtMax == 33
Damping == 960
ZPhaseRate == 500
ZDepth == 300
SeedRange == 1000000

Vec(x, y, z) == [x |-> x, y |-> y, z |-> z]

\* THREE.Vector3.addScaledVector(v, s)
addScaledVector(a, v, s) ==
    Vec(Add(a.x, Mul(v.x, s)), Add(a.y, Mul(v.y, s)), Add(a.z, Mul(v.z, s)))

\* THREE.Vector3.multiplyScalar(s)
multiplyScalar(v, s) == Vec(Mul(v.x, s), Mul(v.y, s), Mul(v.z, s))

\* Faulty variant of JuliaX: the real part of z^2 with the wrong sign on y^2.
JuliaXPlusY2(p, params) ==
    LET x == Div(p.pos.x, params.scale)
        y == Div(p.pos.y, params.scale)
    IN Mul(Add(Add(Mul(x, x), Mul(y, y)), parseFloat(params.cRe)), params.scale)

\* The Julia iteration z = z^2 + c on the position scaled into the plane,
\* scaled back: the x and y written to p.pos before forces and integration.
JuliaX(p, params) ==
    LET x == Div(p.pos.x, params.scale)
        y == Div(p.pos.y, params.scale)
    IN Mul(Add(Sub(Mul(x, x), Mul(y, y)), parseFloat(params.cRe)), params.scale)

JuliaY(p, params) ==
    LET x == Div(p.pos.x, params.scale)
        y == Div(p.pos.y, params.scale)
    IN Mul(Add(Mul(Mul(2 * Unit, x), y), parseFloat(params.cIm)), params.scale)

DepthZ(p, t, params) ==
    Mul(Mul(MathSin(Add(Mul(t, ZPhaseRate), p.seed)), params.scale), ZDepth)

\* vel += -pos * attraction * dt, component-wise.
Attract(vel, pos, params, dt) ==
    Vec(Add(vel.x, Mul(Mul(Neg(pos.x), params.attraction), dt)),
        Add(vel.y, Mul(Mul(Neg(pos.y), params.attraction), dt)),
        Add(vel.z, Mul(Mul(Neg(pos.z), params.attraction), dt)))

\* Faulty variant of Damp: the damping is left out.
DampNone(vel) == vel

Damp(vel) == multiplyScalar(vel, Damping)

algorithmStep(p, t, dt, params) ==
    LET mapped == Vec(JuliaX(p, params), JuliaY(p, params), DepthZ(p, t, params))
        vel1 == Attract(p.vel, mapped, params, dt)
        pos1 == addScaledVector(mapped, vel1, Mul(dt, params.speed))
    IN [p EXCEPT !.pos = pos1, !.vel = Damp(vel1)]

\* ------------------------------------------------------------------ state
VARIABLES
    params,          \* the params prop of the latest render of Particles
    particles,       \* particles.current
    effectPending,   \* the re-init effect of the latest render has not run yet
    clock,           \* clock.current
    instanceMatrix,  \* the transforms written with meshRef.current.setMatrixAt
    lastOp,          \* which callback ran last
    lastDelta,       \* the delta the last frame callback was given
    builds,          \* number of pool builds so far
    builtDeps,       \* history: count, spawnRadius, resetToken at the last build
    seed0,           \* history: each particle's seed when it was created
    nFrames,         \* frame callbacks so far
    nRenders         \* renders after the first so far

vars == <<params, particles, effectPending, clock, instanceMatrix, lastOp,
          lastDelta, builds, builtDeps, seed0, nFrames, nRenders>>

\* ------------------------------------------------------------ input sets
Counts == {1, 2}
PointSizes == {900, 2000}
Speeds == {5000, 24000}
Scales == {6000, 24000}
Attractions == {0, 20}
SpawnRadii == {5000, 20000}
\* cRe / cIm as they may arrive: numbers, numeric strings, other strings.
MapConstants ==
    {Num(0 - 700), Str(<<"0", ".", "2", "7">>), Str(<<"a", "b", "c">>)}
\* Four successive values of Math.random(), each in [0, 1): the draws for one
\* particle's x, y, z and seed.
Draw(x, y, z, sd) == [x |-> x, y |-> y, z |-> z, s |-> sd]
RandomDraws ==
    {Draw(0, 0, 0, 0), Draw(999, 999, 999, 999), Draw(500, 500, 500, 0)}
\* Seconds since the previous frame.
Deltas == {16, 1000}

\* Faulty variant of Deps: resetToken left out of the dependency array.
DepsWithoutToken(count, prm) == <<count, prm.spawnRadius>>

\* The dependency array of the re-init effect.
Deps(count, prm) == <<count, prm.spawnRadius, prm.resetToken>>

\* The sim state App starts with, the population scaled down to the model.
InitialSim ==
    [paused |-> FALSE, count |-> 1, pointSize |-> 900, speed |-> 24000,
     scale |-> 24000, attraction |-> 20, spawnRadius |-> 20000,
     cRe |-> Num(0 - 700), cIm |-> Num(270), resetToken |-> 0]

\* History value before any build: no parameter object matches it.
NoBuild == [count |-> 0 - 1, spawnRadius |-> 0 - 1, resetToken |-> 0 - 1]
BuiltFrom(prm) ==
    [count |-> prm.count, spawnRadius |-> prm.spawnRadius,
     resetToken |-> prm.resetToken]

\* The first render of Particles has happened: the pool is the empty array of
\* useRef([]), the clock is useRef(0), and the re-init effect is scheduled.
Init ==
    /\ params = InitialSim
    /\ particles = <<>>
    /\ effectPending = TRUE
    /\ clock = 0
    /\ instanceMatrix = <<>>
    /\ lastOp = "mount"
    /\ lastDelta = 0
    /\ builds = 0
    /\ builtDeps = NoBuild
    /\ seed0 = <<>>
    /\ nFrames = 0
    /\ nRenders = 0

\* ---------------------------------------------------------------- actions
\* The params objects one setSim call can produce from prm: one key set from
\* its control, the pause toggle, Reset Particles, Randomize Fractal.
NextSims(prm) ==
    {[prm EXCEPT !.count = v] : v \in Counts}
    \cup {[prm EXCEPT !.pointSize = v] : v \in PointSizes}
    \cup {[prm EXCEPT !.speed = v] : v \in Speeds}
    \cup {[prm EXCEPT !.scale = v] : v \in Scales}
    \cup {[prm EXCEPT !.attraction = v] : v \in Attractions}
    \cup {[prm EXCEPT !.spawnRadius = v] : v \in SpawnRadii}
    \cup {[prm EXCEPT !.cRe = v] : v \in MapConstants}
    \cup {[prm EXCEPT !.cIm = v] : v \in MapConstants}
    \cup {[prm EXCEPT !.paused = ~prm.paused]}
    \cup {[prm EXCEPT !.resetToken = prm.resetToken + 1]}
    \cup {[prm EXCEPT !.cRe = Num(270), !.cIm = Num(0 - 700),
                      !.resetToken = prm.resetToken + 1]}

\* React's comparison of an effect's dependency arrays (Object.is per entry).
DepsChanged(old, new) == old # new

\* Particles renders with a new params object.  React runs a pending effect
\* before it renders the component again, so a render finds none pending.  The
\* frame callback registered by useFrame is the one of this render from now on.
Render ==
    /\ nRenders < MaxRenders
    /\ ~effectPending
    /\ \E new \in NextSims(params) :
          /\ new # params
          /\ params' = new
          /\ effectPending' =
                DepsChanged(Deps(params.count, params), Deps(new.count, new))
    /\ nRenders' = nRenders + 1
    /\ lastOp' = "render"
    /\ UNCHANGED <<particles, clock, instanceMatrix, lastDelta, builds,
                   builtDeps, seed0, nFrames>>

\* Faulty variant of NewParticle: the draws are not centred on the origin.
NewParticleUncentred(r, spawnRadius, build) ==
    [pos |-> Vec(Mul(Mul(r.x, spawnRadius), 2 * Unit),
                 Mul(Mul(r.y, spawnRadius), 2 * Unit),
                 Mul(Mul(r.z, spawnRadius), 2 * Unit)),
     vel |-> Vec(0, 0, 0),
     seed |-> Mul(r.s, SeedRange),
     born |-> build]

\* One particle of the re-init loop, from four values of Math.random().
NewParticle(r, spawnRadius, build) ==
    [pos |-> Vec(Mul(Mul(Sub(r.x, Unit \div 2), spawnRadius), 2 * Unit),
                 Mul(Mul(Sub(r.y, Unit \div 2), spawnRadius), 2 * Unit),
                 Mul(Mul(Sub(r.z, Unit \div 2), spawnRadius), 2 * Unit)),
     vel |-> Vec(0, 0, 0),
     seed |-> Mul(r.s, SeedRange),
     born |-> build]

\* The array temp the effect fills: count particles.
NewPool(count, spawnRadius, build, rs) ==
    [i \in 1..count |-> NewParticle(rs[i], spawnRadius, build)]

\* The re-init effect: builds temp, then assigns it to particles.current.
Effect ==
    /\ effectPending
    /\ \E rs \in [1..params.count -> RandomDraws] :
          particles' = NewPool(params.count, params.spawnRadius, builds + 1, rs)
    /\ effectPending' = FALSE
    /\ builds' = builds + 1
    /\ builtDeps' = BuiltFrom(params)
    /\ seed0' = [i \in 1..params.count |-> particles'[i].seed]
    /\ lastOp' = "effect"
    /\ UNCHANGED <<params, clock, instanceMatrix, lastDelta, nFrames, nRenders>>

\* Faulty variant of ClockAfter: the clock advances by the clamped delta.
ClockAfterClamped(c, delta) == Add(c, MathMin(delta, DtMax))

\* clock.current += delta
ClockAfter(c, delta) == Add(c, delta)

\* Faulty variant of StepDt: the delta is used unclamped.
StepDtUnclamped(delta) == delta

\* const dt = Math.min(delta, 0.033)
StepDt(delta) == MathMin(delta, DtMax)

\* Faulty variant of StepAll: the step also recomputes the seed.
StepAllReseeding(ps, t, dt, prm) ==
    [i \in 1..Len(ps) |->
        [algorithmStep(ps[i], t, dt, prm) EXCEPT !.seed = Add(ps[i].seed, t)]]

\* The loop of the frame callback over particles.current.
StepAll(ps, t, dt, prm) == [i \in 1..Len(ps) |-> algorithmStep(ps[i], t, dt, prm)]

\* What setMatrixAt stores for slot i: the position and the uniform scale.
Transforms(ps, prm) ==
    [i \in 1..Len(ps) |-> [position |-> ps[i].pos, scale |-> prm.pointSize]]

\* Faulty variant of Paused: the pause flag is ignored.
PausedNever(prm) == FALSE

\* if (params.paused) return;
Paused(prm) == prm.paused

\* The callback given to useFrame, called by the render loop with delta.
Frame ==
    /\ nFrames < MaxFrames
    /\ \E delta \in Deltas :
          /\ lastDelta' = delta
          /\ IF Paused(params)
             THEN UNCHANGED <<clock, particles, instanceMatrix>>
             ELSE /\ clock' = ClockAfter(clock, delta)
                  /\ particles' = StepAll(particles, clock', StepDt(delta), params)
                  /\ instanceMatrix' = Transforms(particles', params)
    /\ nFrames' = nFrames + 1
    /\ lastOp' = "frame"
    /\ UNCHANGED <<params, effectPending, builds, builtDeps, seed0, nRenders>>

Next == Render \/ Effect \/ Frame

Spec == Init /\ [][Next]_vars

\* ------------------------------------------- the frame step on its own
\* The frame callback applied to a pool of one particle that earlier frames
\* have moved, under the parameters of the latest render: the inputs of
\* algorithmStep drawn from bounded sets.
StepPositions == {0, 12000, 0 - 60000}
StepVelocities == {Vec(0, 0, 0), Vec(1000, 0 - 25, 40)}
StepSeeds == {0, 999000}
StepClocks == {0, 2000}
StepCRe ==
    {Num(0 - 700), Str(<<"-", "0", ".", "7">>), Str(<<"a", "b", "c">>)}
StepCIm == {Num(270), Str(<<"0", ".", "2", "7", "x">>)}

StepParams ==
    {[InitialSim EXCEPT !.paused = pz, !.scale = sc, !.attraction = at,
                        !.cRe = cr, !.cIm = ci] :
        pz \in BOOLEAN, sc \in Scales, at \in Attractions,
        cr \in StepCRe, ci \in StepCIm}

StepInit ==
    /\ params \in StepParams
    /\ \E x \in StepPositions, y \in StepPositions, v \in StepVelocities,
          sd \in StepSeeds :
          particles = <<[pos |-> Vec(x, y, 0), vel |-> v, seed |-> sd, born |-> 1]>>
    /\ effectPending = FALSE
    /\ clock \in StepClocks
    /\ instanceMatrix = <<>>
    /\ lastOp = "render"
    /\ lastDelta = 0
    /\ builds = 1
    /\ builtDeps = BuiltFrom(params)
    /\ seed0 = <<particles[1].seed>>
    /\ nFrames = 0
    /\ nRenders = 0

StepNext == Frame

StepSpec == StepInit /\ [][StepNext]_vars

\* ------------------------------------------------------------ properties
\* Which callback a step of the behaviour is.
IsRender == nRenders' = nRenders + 1
IsEffect == builds' = builds + 1
IsFrame == nFrames' = nFrames + 1
IsStep == IsFrame /\ ~params.paused

\* C1: the pool is replaced if and only if count, spawnRadius or resetToken
\* differs from its value at the last build.  A render leaves the pool as it
\* is and schedules a rebuild exactly when one of the three differs from the
\* last build; a rebuild happens only when one differs, and every particle of
\* the pool it produces is new; every other step keeps the particles' number
\* and identities.
C1_PoolReplacedIffDepsChanged ==
    [][/\ (effectPending' <=> BuiltFrom(params') # builtDeps')
       /\ (IsRender => particles' = particles /\ builds' = builds)
       /\ (builds' # builds =>
              /\ BuiltFrom(params) # builtDeps
              /\ builtDeps' = BuiltFrom(params)
              /\ \A i \in 1..Len(particles') : particles'[i].born = builds'
              /\ \A i \in 1..Len(particles) : particles[i].born < builds')
       /\ (builds' = builds =>
              /\ Len(particles') = Len(particles)
              /\ \A i \in 1..Len(particles) :
                    particles'[i].born = particles[i].born)]_vars

\* A second pool has replaced the first after count, spawnRadius or
\* resetToken changed.
C1_Witness ==
    /\ lastOp = "effect"
    /\ builds = 2
    /\ BuiltFrom(params) # BuiltFrom(InitialSim)
    /\ \A i \in 1..Len(particles) : particles[i].born = 2

\* C2: while params.paused is true a frame step leaves every particle's
\* position and velocity and the clock unchanged.
C2_PausedFrameIsNoOp ==
    [][(IsFrame /\ params.paused) => particles' = particles /\ clock' = clock]_vars

\* Two frames have run on a built pool while paused.
C2_Witness ==
    /\ lastOp = "frame"
    /\ params.paused
    /\ nFrames = 2
    /\ Len(particles) > 0

\* C3 as stated: every unpaused frame step advances the clock by
\* min(delta, 0.033).
C3_ClockAdvancesByClampedDelta ==
    [][IsStep => clock' = Add(clock, MathMin(lastDelta', DtMax))]_vars

\* C3 amended: every unpaused frame step advances the clock by the delta it
\* was given, unclamped, the clock never decreases, and the time passed to
\* the per-particle update is that clock; only dt is clamped.
C3_ClockAdvancesByRawDelta ==
    [][IsStep =>
          /\ clock' = Add(clock, lastDelta')
          /\ clock' >= clock
          /\ particles' = [i \in 1..Len(particles) |->
                algorithmStep(particles[i], Add(clock, lastDelta'),
                              MathMin(lastDelta', DtMax), params)]]_vars

\* A frame given a delta of one second has advanced the clock by one second.
C3_Witness ==
    /\ lastOp = "frame"
    /\ ~params.paused
    /\ lastDelta = 1000
    /\ clock = 1016
    /\ Len(particles) > 0

\* min(delta, 0.033) for the delta of the step.
C4_Dt == IF lastDelta' < DtMax THEN lastDelta' ELSE DtMax

\* One axis moved from the remapped value by at most |v| * 0.033 * speed.
C4_Moved(from, to, v, speed) ==
    (IsFinite(from) /\ IsFinite(to) /\ IsFinite(v)) =>
        Abs(to - from) <= Mul(Abs(v), Mul(DtMax, speed))

\* C4: the per-particle update of a frame step receives dt = min(delta, 0.033)
\* <= 0.033, for any delta (1.0 included), and on each axis the integration
\* moves the remapped position by at most |velocity| * 0.033 * speed, the
\* velocity being the one integrated (after the attraction update).
C4_StepUsesClampedDelta ==
    [][IsStep =>
          /\ C4_Dt <= DtMax
          /\ \A i \in 1..Len(particles) :
                LET p == particles[i]
                    q == particles'[i]
                    m == Vec(JuliaX(p, params), JuliaY(p, params),
                             DepthZ(p, clock', params))
                    v == Attract(p.vel, m, params, C4_Dt)
                IN /\ q = algorithmStep(p, clock', C4_Dt, params)
                   /\ C4_Moved(m.x, q.pos.x, v.x, params.speed)
                   /\ C4_Moved(m.y, q.pos.y, v.y, params.speed)
                   /\ C4_Moved(m.z, q.pos.z, v.z, params.speed)]_vars

\* A frame given a delta of one second has stepped a moving particle.
C4_Witness ==
    /\ lastOp = "frame"
    /\ ~params.paused
    /\ lastDelta = 1000
    /\ nFrames = 2
    /\ \E i \in 1..Len(particles) :
          IsFinite(particles[i].vel.x) /\ particles[i].vel.x # 0

\* C5: right after a rebuild with count N and spawnRadius R the pool holds N
\* particles, each coordinate in [-R, R], velocity (0,0,0), seed in [0, 1000).
C5_RebuiltPoolInSpawnCube ==
    lastOp = "effect" =>
        /\ Len(particles) = params.count
        /\ \A i \in 1..Len(particles) :
              LET p == particles[i]
                  R == params.spawnRadius
              IN /\ 0 - R <= p.pos.x /\ p.pos.x <= R
                 /\ 0 - R <= p.pos.y /\ p.pos.y <= R
                 /\ 0 - R <= p.pos.z /\ p.pos.z <= R
                 /\ p.vel = Vec(0, 0, 0)
                 /\ 0 <= p.seed /\ p.seed < SeedRange

\* A pool of two has just been built, with a coordinate on the cube's face
\* and a seed at the top of its range.
C5_Witness ==
    /\ lastOp = "effect"
    /\ Len(particles) = 2
    /\ particles[1].pos.x = 0 - params.spawnRadius
    /\ particles[2].seed = 999000

\* C6: a particle's seed is the one it was created with; no frame step changes
\* it, and a seed at some index changes only when a rebuild replaces the
\* particle there.
C6_SeedFixedAtCreation ==
    [][/\ \A i \in 1..Len(particles') : particles'[i].seed = seed0'[i]
       /\ (IsFrame => \A i \in 1..Len(particles) :
                         particles'[i].seed = particles[i].seed)
       /\ \A i \in 1..Len(particles) :
             (i <= Len(particles') /\ particles'[i].seed # particles[i].seed)
                 => (IsEffect /\ particles'[i].born # particles[i].born)]_vars

\* Two unpaused frames have stepped a pool of two.
C6_Witness ==
    /\ lastOp = "frame"
    /\ ~params.paused
    /\ nFrames = 2
    /\ clock > 0
    /\ Len(particles) = 2
    /\ particles[2].seed = 999000

\* C7 as stated: every frame step iterates a pool that is the complete result
\* of one rebuild and whose length is the count of the parameters it reads.
C7_FrameIteratesPoolOfItsCount ==
    (lastOp = "frame" /\ ~params.paused) =>
        /\ builds >= 1
        /\ \A i \in 1..Len(particles) : particles[i].born = builds
        /\ Len(particles) = params.count

\* C8 as stated: the per-particle update never runs with a cRe or cIm that
\* failed to parse as a number.
C8_NoStepWithUnparsedMapConstant ==
    (lastOp = "frame" /\ ~params.paused /\ Len(particles) > 0) =>
        /\ ~IsNaN(parseFloat(params.cRe))
        /\ ~IsNaN(parseFloat(params.cIm))

\* A velocity component v became w = 0.96 v, zero staying zero.
C9_Damped(v, w) == w = Mul(v, Damping) /\ (v = 0 => w = 0)

\* C9 as stated: with attraction = 0 every frame step multiplies each velocity
\* component by 0.96, and a zero velocity stays zero.
C9_DampingWithoutAttraction ==
    [][(IsStep /\ params.attraction = 0) =>
          \A i \in 1..Len(particles) :
             /\ C9_Damped(particles[i].vel.x, particles'[i].vel.x)
             /\ C9_Damped(particles[i].vel.y, particles'[i].vel.y)
             /\ C9_Damped(particles[i].vel.z, particles'[i].vel.z)]_vars

\* A velocity component v became w, the remapped position component being m.
C9_DampedOrNaN(m, v, w) ==
    IF IsFinite(m)
    THEN /\ w = Mul(v, Damping)
         /\ (v = 0 => w = 0)
         /\ (IsFinite(v) => Abs(w) <= Abs(v))
         /\ (IsFinite(v) /\ 2 * Abs(v) * (Unit - Damping) > Unit
                => Abs(w) < Abs(v))
    ELSE IsNaN(w)

\* C9 amended: with attraction = 0 a frame step multiplies a velocity
\* component by 0.96, whatever dt, when the remapped position component is
\* finite: the magnitude then never increases, shrinks whenever the 4% is
\* more than the rounding, and zero stays zero.  When the remapped component
\* is not finite the velocity component becomes NaN.
C9_DampingWhileMapFinite ==
    [][(IsStep /\ params.attraction = 0) =>
          \A i \in 1..Len(particles) :
             LET p == particles[i]
                 q == particles'[i]
             IN /\ C9_DampedOrNaN(JuliaX(p, params), p.vel.x, q.vel.x)
                /\ C9_DampedOrNaN(JuliaY(p, params), p.vel.y, q.vel.y)
                /\ C9_DampedOrNaN(DepthZ(p, clock', params), p.vel.z, q.vel.z)]_vars

\* Two frames without attraction have damped a moving particle twice.
C9_Witness ==
    /\ lastOp = "frame"
    /\ ~params.paused
    /\ params.attraction = 0
    /\ nFrames = 2
    /\ particles[1].vel.x = 922
    /\ particles[1].vel.y = 0 - 23

\* ((x/scale)^2 - (y/scale)^2 + cRe) * scale
C10_MapX(x, y, scale, cRe) ==
    Mul(Add(Sub(Mul(Div(x, scale), Div(x, scale)),
                Mul(Div(y, scale), Div(y, scale))), cRe), scale)

\* (2 (x/scale) (y/scale) + cIm) * scale
C10_MapY(x, y, scale, cIm) ==
    Mul(Add(Mul(Mul(2 * Unit, Div(x, scale)), Div(y, scale)), cIm), scale)

\* An unpaused step without attraction of a particle at rest, the map
\* constants being numbers.
C10_Case(p) ==
    /\ IsStep
    /\ params.attraction = 0
    /\ p.vel = Vec(0, 0, 0)
    /\ ~IsNaN(parseFloat(params.cRe))
    /\ ~IsNaN(parseFloat(params.cIm))

\* C10 as stated: for a particle with zero velocity and attraction = 0 one
\* update sets position.x = ((x/scale)^2 - (y/scale)^2 + cRe) * scale and
\* position.y = (2 (x/scale) (y/scale) + cIm) * scale and leaves the velocity
\* zero.
C10_ZeroVelocityStepIsTheMap ==
    [][\A i \in 1..Len(particles) :
          LET p == particles[i]
              q == particles'[i]
          IN C10_Case(p) =>
                /\ q.pos.x = C10_MapX(p.pos.x, p.pos.y, params.scale,
                                      parseFloat(params.cRe))
                /\ q.pos.y = C10_MapY(p.pos.x, p.pos.y, params.scale,
                                      parseFloat(params.cIm))
                /\ q.vel = Vec(0, 0, 0)]_vars

\* C10 amended: the same whenever both mapped coordinates are finite; and from
\* position (0,0,0) with scale = 24, cRe = -0.7, cIm = 0.27 the result is
\* position.x = -16.8, position.y = 6.48.
C10_ZeroVelocityStepIsTheMapWhileFinite ==
    [][\A i \in 1..Len(particles) :
          LET p == particles[i]
              q == particles'[i]
              mx == C10_MapX(p.pos.x, p.pos.y, params.scale,
                             parseFloat(params.cRe))
              my == C10_MapY(p.pos.x, p.pos.y, params.scale,
                             parseFloat(params.cIm))
          IN /\ (C10_Case(p) /\ IsFinite(mx) /\ IsFinite(my)) =>
                   q.pos.x = mx /\ q.pos.y = my /\ q.vel = Vec(0, 0, 0)
             /\ (/\ C10_Case(p)
                 /\ p.pos = Vec(0, 0, 0)
                 /\ params.scale = 24000
                 /\ parseFloat(params.cRe) = 0 - 700
                 /\ parseFloat(params.cIm) = 270) =>
                   q.pos.x = 0 - 16800 /\ q.pos.y = 6480]_vars

\* One step of the scenario: a resting particle with seed 0 has been mapped
\* to (-16.8, 6.48).
C10_Witness ==
    /\ lastOp = "frame"
    /\ ~params.paused
    /\ nFrames = 1
    /\ params.attraction = 0
    /\ params.scale = 24000
    /\ parseFloat(params.cRe) = 0 - 700
    /\ parseFloat(params.cIm) = 270
    /\ particles[1].seed = 0
    /\ particles[1].vel = Vec(0, 0, 0)
    /\ particles[1].pos.x = 0 - 16800
    /\ particles[1].pos.y = 6480

====
